---- MODULE Spec2Model ----
(***************************************************************************)
(* Model of android/mutator.go: the registration of mutators in phases,    *)
(* the passes that run them over the module variants, and the operations   *)
(* a mutator context offers while a variant is visited.                    *)
(*                                                                         *)
(* mutator.go is a layer over the blueprint engine.  What mutator.go       *)
(* itself computes (registration order, the finalPhase flag, the debug     *)
(* history, DebugName, the panics) is translated from its code.  What the  *)
(* engine does behind b.bp / t.bp (creating the variants, buffering until  *)
(* the end of the pass, scheduling the visits) is not in this file; it is  *)
(* modelled from the interface documentation in mutator.go and from the    *)
(* specification, in the definitions whose names start with bp.            *)
(***************************************************************************)
EXTENDS Integers, Sequences, FiniteSets, TLC

VARIABLES
    preArch,      \* var preArch   []RegisterMutatorFunc
    preDeps,      \* var preDeps   []RegisterMutatorFunc
    postDeps,     \* var postDeps  []RegisterMutatorFunc
    finalDeps,    \* var finalDeps []RegisterMutatorFunc
    mutators,     \* the mutators handed to the blueprint context, in order
    stage,        \* "init", "idle" (between passes), "pass", "done", "aborted", "failed"
    pass,         \* index in mutators of the current (or last) pass
    store,        \* the variants of all modules, in order, each with its directDeps
    moduleName,   \* unit -> the name ModuleName/OtherModuleName return
    todo,         \* variants of this pass not yet visited, in visiting order
    active,       \* variants whose visit is in progress
    opDone,       \* visits in progress that already made their call
    fatal,        \* a visit of this pass panicked
    errs,         \* unit-local errors reported in this pass
    reverseDeps,  \* reverse dependencies queued in this pass
    replace,      \* replacements queued in this pass
    rename,       \* renames queued in this pass
    newModules,   \* modules created in this pass
    runLog,       \* names of the mutators whose pass started, in order
    lastOp        \* the last call made on a mutator context and what it returned

regVars == <<preArch, preDeps, postDeps, finalDeps>>
graphVars == <<store, moduleName>>
queueVars == <<reverseDeps, replace, rename, newModules>>
vars == <<preArch, preDeps, postDeps, finalDeps, mutators, stage, pass, store,
          moduleName, todo, active, opDone, fatal, errs, reverseDeps,
          replace, rename, newModules, runLog, lastOp>>

----------------------------------------------------------------------------
(* Bounds *)

MaxUserFuncs == 2
MaxVariants == 2
MaxDepth == 2

----------------------------------------------------------------------------
(* Helpers on sequences *)

Range(s) == {s[i] : i \in 1..Len(s)}

RECURSIVE Flatten(_)
Flatten(ss) == IF ss = <<>> THEN <<>> ELSE Head(ss) \o Flatten(Tail(ss))

Remove(s, x) == SelectSeq(s, LAMBDA y : y # x)

----------------------------------------------------------------------------
(* Registration *)

NoFunc == [wrap |-> "nil", finalPhase |-> FALSE, m |-> "none"]

\* The built-in RegisterMutatorFuncs of the package lists whose bodies are in
\* other files: each is taken to register one mutator that calls none of the
\* operations modelled here.
ExternalFuncs ==
    {"RegisterNamespaceMutator", "RegisterVisibilityRuleChecker",
     "RegisterDefaultsPreArchMutators", "RegisterPrebuiltsPreArchMutators",
     "RegisterVisibilityRuleGatherer", "registerPathDepsMutator",
     "RegisterPrebuiltsPostDepsMutators", "RegisterVisibilityRuleEnforcer",
     "RegisterNeverallowMutator", "RegisterOverridePostDepsMutators"}

ExternalFunc(f) ==
    << [method |-> "BottomUp", name |-> f, m |-> "none", parallel |-> FALSE] >>

registerArchMutator ==
    << [method |-> "BottomUpBlueprint", name |-> "os", m |-> "osMutator", parallel |-> TRUE],
       [method |-> "BottomUp", name |-> "image", m |-> "imageMutator", parallel |-> TRUE],
       [method |-> "BottomUpBlueprint", name |-> "arch", m |-> "archMutator", parallel |-> TRUE] >>

RegisterComponentsMutator ==
    << [method |-> "BottomUp", name |-> "component-deps", m |-> "componentDepsMutator",
        parallel |-> TRUE] >>

\* RegisterMutatorFuncs a client of the package may pass to PreArchMutators,
\* PreDepsMutators, PostDepsMutators and FinalDepsMutators.
UserFunc(f) ==
    CASE f = "uSplit" ->
           << [method |-> "BottomUp", name |-> "split", m |-> "split", parallel |-> FALSE],
              [method |-> "BottomUp", name |-> "local", m |-> "splitLocal", parallel |-> TRUE],
              [method |-> "BottomUpBlueprint", name |-> "bpsplit", m |-> "bpSplit",
               parallel |-> FALSE] >>
      [] f = "uTwo" ->
           << [method |-> "TopDown", name |-> "two-a", m |-> "none", parallel |-> FALSE],
              [method |-> "BottomUp", name |-> "two-b", m |-> "none", parallel |-> TRUE] >>
      [] f = "uTop" ->
           << [method |-> "TopDown", name |-> "top", m |-> "none", parallel |-> TRUE] >>
      [] f = "uRev" ->
           << [method |-> "BottomUp", name |-> "revdeps", m |-> "revdeps", parallel |-> TRUE] >>
      [] f = "uReplace" ->
           << [method |-> "BottomUp", name |-> "replace", m |-> "replace", parallel |-> TRUE] >>
      [] f = "uRename" ->
           << [method |-> "BottomUp", name |-> "rename", m |-> "rename", parallel |-> TRUE] >>
      [] f = "uRenameTop" ->
           << [method |-> "TopDown", name |-> "renametop", m |-> "rename", parallel |-> FALSE] >>
      [] f = "uCreate" ->
           << [method |-> "TopDown", name |-> "create", m |-> "create", parallel |-> FALSE] >>
      [] f = "uProps" ->
           << [method |-> "TopDown", name |-> "props", m |-> "props", parallel |-> TRUE] >>
      [] OTHER -> << >>

Calls(f) ==
    CASE f = "registerArchMutator" -> registerArchMutator
      [] f = "RegisterComponentsMutator" -> RegisterComponentsMutator
      [] f \in ExternalFuncs -> ExternalFunc(f)
      [] OTHER -> UserFunc(f)

\* mutant: the closure reads x.finalPhase when the mutator runs, which is after
\* registerMutators has set it
BottomUp_FlagByReference(x, name, m) ==
    [x EXCEPT !.mutators = Append(@,
        [name |-> name,
         bottomUpMutator |-> [wrap |-> "android", finalPhase |-> TRUE, m |-> m],
         topDownMutator |-> NoFunc,
         parallel |-> FALSE])]

\* (x *registerMutatorsContext) BottomUp: the closure captures x.finalPhase
BottomUp(x, name, m) ==
    [x EXCEPT !.mutators = Append(@,
        [name |-> name,
         bottomUpMutator |-> [wrap |-> "android", finalPhase |-> x.finalPhase, m |-> m],
         topDownMutator |-> NoFunc,
         parallel |-> FALSE])]

\* (x *registerMutatorsContext) BottomUpBlueprint: m is registered as it is
BottomUpBlueprint(x, name, m) ==
    [x EXCEPT !.mutators = Append(@,
        [name |-> name,
         bottomUpMutator |-> [wrap |-> "blueprint", finalPhase |-> FALSE, m |-> m],
         topDownMutator |-> NoFunc,
         parallel |-> FALSE])]

\* (x *registerMutatorsContext) TopDown
TopDown(x, name, m) ==
    [x EXCEPT !.mutators = Append(@,
        [name |-> name,
         bottomUpMutator |-> NoFunc,
         topDownMutator |-> [wrap |-> "android", finalPhase |-> FALSE, m |-> m],
         parallel |-> FALSE])]

\* (mutator *mutator) Parallel, on the handle the last registration returned
Parallel(x) ==
    [x EXCEPT !.mutators[Len(x.mutators)].parallel = TRUE]

\* one call f makes on the RegisterMutatorsContext
Register1(x, c) ==
    LET x1 == CASE c.method = "BottomUp" -> BottomUp(x, c.name, c.m)
                [] c.method = "BottomUpBlueprint" -> BottomUpBlueprint(x, c.name, c.m)
                [] OTHER -> TopDown(x, c.name, c.m)
    IN  IF c.parallel THEN Parallel(x1) ELSE x1

RECURSIVE RunFunc(_, _)
RunFunc(x, calls) ==
    IF calls = <<>> THEN x ELSE RunFunc(Register1(x, Head(calls)), Tail(calls))

\* register := func(funcs []RegisterMutatorFunc) { for _, f := range funcs { f(mctx) } }
RECURSIVE register(_, _)
register(x, funcs) ==
    IF funcs = <<>> THEN x ELSE register(RunFunc(x, Calls(Head(funcs))), Tail(funcs))

\* mutant: Parallel() is called on every handle
registerMutatorsToContext_AllParallel(ms) ==
    [i \in 1..Len(ms) |->
        [name |-> ms[i].name,
         dir |-> IF ms[i].bottomUpMutator # NoFunc THEN "bottomUp"
                 ELSE IF ms[i].topDownMutator # NoFunc THEN "topDown" ELSE "none",
         fn |-> IF ms[i].bottomUpMutator # NoFunc THEN ms[i].bottomUpMutator
                ELSE ms[i].topDownMutator,
         parallel |-> TRUE]]

\* what registerMutatorsToContext registers with the blueprint context
registerMutatorsToContext(ms) ==
    [i \in 1..Len(ms) |->
        [name |-> ms[i].name,
         dir |-> IF ms[i].bottomUpMutator # NoFunc THEN "bottomUp"
                 ELSE IF ms[i].topDownMutator # NoFunc THEN "topDown" ELSE "none",
         fn |-> IF ms[i].bottomUpMutator # NoFunc THEN ms[i].bottomUpMutator
                ELSE ms[i].topDownMutator,
         parallel |-> ms[i].parallel]]

\* mutant: the deps mutator is registered before the PreDeps mutators
registerMutators_DepsFirst(pa, pd, po, fd) ==
    LET mctx == [mutators |-> << >>, finalPhase |-> FALSE]
        x1 == register(mctx, pa)
        x2 == Parallel(BottomUp(x1, "deps", "depsMutator"))
        x3 == register(x2, pd)
        x4 == register(x3, po)
        x5 == [x4 EXCEPT !.finalPhase = TRUE]
        x6 == register(x5, fd)
    IN  registerMutatorsToContext(x6.mutators)

registerMutators(pa, pd, po, fd) ==
    LET mctx == [mutators |-> << >>, finalPhase |-> FALSE]
        x1 == register(mctx, pa)
        x2 == register(x1, pd)
        x3 == Parallel(BottomUp(x2, "deps", "depsMutator"))
        x4 == register(x3, po)
        x5 == [x4 EXCEPT !.finalPhase = TRUE]
        x6 == register(x5, fd)
    IN  registerMutatorsToContext(x6.mutators)

----------------------------------------------------------------------------
(* The module graph *)

Id(mod) == <<mod.unit, mod.variations>>

Ids == {Id(store[i]) : i \in 1..Len(store)}

Index(v) == CHOOSE i \in 1..Len(store) : Id(store[i]) = v

Module(v) == store[Index(v)]

\* a module as it enters the graph: no variations, no split history
NewModule(u) ==
    [unit |-> u, variations |-> << >>, local |-> {}, directDeps |-> << >>,
     DebugName |-> u, DebugMutators |-> << >>, DebugVariations |-> << >>]

\* the variation lists a mutator may ask for
SplitNames == { <<"x">>, <<"x", "y">> }

----------------------------------------------------------------------------
(* Contexts and the operations on them *)

\* bottomUpMutatorContextFactory: the context of one visit
bottomUpMutatorContextFactory(mutatorName, finalPhase) ==
    [MutatorName |-> mutatorName, finalPhase |-> finalPhase]

\* b.bp.CreateVariations / b.bp.CreateLocalVariations: one new variant per name,
\* in the order of the names, each the parent extended by (mutator, name)
bpCreateVariations(mutatorName, parent, variations, local) ==
    [i \in 1..Len(variations) |->
        [parent EXCEPT !.variations = Append(@, <<mutatorName, variations[i]>>),
                       !.local = IF local THEN @ \cup {mutatorName} ELSE @]]

\* mutant: every entry of the result is taken from modules[0]
AppendDebug_First(b, created, variations) ==
    [i \in 1..Len(variations) |->
        [created[1] EXCEPT !.DebugMutators = Append(@, b.MutatorName),
                           !.DebugVariations = Append(@, variations[i])]]

\* the loop of CreateVariations and CreateLocalVariations over the new modules
AppendDebug(b, created, variations) ==
    [i \in 1..Len(variations) |->
        [created[i] EXCEPT !.DebugMutators = Append(@, b.MutatorName),
                           !.DebugVariations = Append(@, variations[i])]]

\* (b *bottomUpMutatorContext) CreateVariations
CreateVariations(b, parent, variations) ==
    IF b.finalPhase
    THEN [panic |-> TRUE, created |-> << >>, aModules |-> << >>]
    ELSE LET created == bpCreateVariations(b.MutatorName, parent, variations, FALSE)
         IN  [panic |-> FALSE, created |-> created,
              aModules |-> AppendDebug(b, created, variations)]

\* mutant: CreateLocalVariations records the variation but not the mutator
CreateLocalVariations_NoMutator(b, parent, variations) ==
    IF b.finalPhase
    THEN [panic |-> TRUE, created |-> << >>, aModules |-> << >>]
    ELSE LET created == bpCreateVariations(b.MutatorName, parent, variations, TRUE)
         IN  [panic |-> FALSE, created |-> created,
              aModules |-> [i \in 1..Len(variations) |->
                              [created[i] EXCEPT !.DebugVariations = Append(@, variations[i])]]]

\* (b *bottomUpMutatorContext) CreateLocalVariations
CreateLocalVariations(b, parent, variations) ==
    IF b.finalPhase
    THEN [panic |-> TRUE, created |-> << >>, aModules |-> << >>]
    ELSE LET created == bpCreateVariations(b.MutatorName, parent, variations, TRUE)
         IN  [panic |-> FALSE, created |-> created,
              aModules |-> AppendDebug(b, created, variations)]

\* a mutator registered with BottomUpBlueprint receives the blueprint context
\* and splits on it directly
RawCreateVariations(mutatorName, parent, variations) ==
    LET created == bpCreateVariations(mutatorName, parent, variations, FALSE)
    IN  [panic |-> FALSE, created |-> created, aModules |-> created]

\* osMutator and archMutator (arch.go) receive the blueprint context, build an
\* android context with finalPhase false and split on that
ArchCreateVariations(mutatorName, parent, variations) ==
    CreateVariations(bottomUpMutatorContextFactory(mutatorName, FALSE), parent, variations)

SplitBodies == {"split", "splitLocal", "imageMutator", "osMutator", "archMutator", "bpSplit"}

\* the split a visit of mutator mu makes on parent
MutatorSplit(mu, parent, variations) ==
    CASE mu.fn.wrap = "android" /\ mu.fn.m = "splitLocal" ->
           CreateLocalVariations(bottomUpMutatorContextFactory(mu.name, mu.fn.finalPhase),
                                 parent, variations)
      [] mu.fn.wrap = "android" ->
           CreateVariations(bottomUpMutatorContextFactory(mu.name, mu.fn.finalPhase),
                            parent, variations)
      [] mu.fn.m \in {"osMutator", "archMutator"} ->
           ArchCreateVariations(mu.name, parent, variations)
      [] OTHER -> RawCreateVariations(mu.name, parent, variations)

\* the variants of the store after the split: the new modules, with what the
\* context appended to them, take the parent's place
SplitStore(i, r) ==
    LET kids == [k \in 1..Len(r.created) |->
                    IF \E j \in 1..Len(r.aModules) : Id(r.aModules[j]) = Id(r.created[k])
                    THEN r.aModules[CHOOSE j \in 1..Len(r.aModules) :
                                        Id(r.aModules[j]) = Id(r.created[k])]
                    ELSE r.created[k]]
    IN  SubSeq(store, 1, i - 1) \o kids \o SubSeq(store, i + 1, Len(store))

NoOp == [pass |-> 0, kind |-> "none", self |-> << >>, names |-> << >>, arg |-> "",
         panic |-> FALSE, ret |-> << >>]

----------------------------------------------------------------------------
(* Dependencies, renames, new modules *)

\* the names of the model in the order of Go's string comparison
NameOrder == <<"app", "gen", "liba", "libb", "libc", "n1", "n2", "new", "old", "target">>

NameLess(a, b) ==
    (CHOOSE i \in 1..Len(NameOrder) : NameOrder[i] = a)
        < (CHOOSE i \in 1..Len(NameOrder) : NameOrder[i] = b)

\* the variant of the module called name that has the given variations
HasVariant(name, variations) ==
    \E w \in Ids : moduleName[w[1]] = name /\ w[2] = variations

FindVariant(name, variations) ==
    CHOOSE w \in Ids : moduleName[w[1]] = name /\ w[2] = variations

\* what the modules declare as dependencies in the configuration files
DeclaredDeps(u) == IF u = "app" THEN <<"old">> ELSE << >>

\* (b *bottomUpMutatorContext) AddDependency forwards to the blueprint context,
\* which appends to the visited module's own dependency list
AddDependency(module, tag, names) ==
    [k \in 1..Len(names) |-> [tag |-> tag, name |-> names[k]]]

bpAddDependency(mod, calls) ==
    [mod EXCEPT !.directDeps =
        @ \o [k \in 1..Len(calls) |->
                [module |-> FindVariant(calls[k].name, mod.variations), tag |-> calls[k].tag]]]

\* mutant: the call is not forwarded to the blueprint context
AddReverseDependency_Dropped(module, tag, name) == << >>

\* (b *bottomUpMutatorContext) AddReverseDependency: the calls forwarded to b.bp
AddReverseDependency(module, tag, name) ==
    << [module |-> module, tag |-> tag, name |-> name] >>

\* b.bp.AddReverseDependency: queued against the destination until the pass ends
bpAddReverseDependency(queue, calls) ==
    queue \o [k \in 1..Len(calls) |->
                [dest |-> FindVariant(calls[k].name, calls[k].module[2]),
                 tag |-> calls[k].tag, module |-> calls[k].module]]

\* mutant: the call is not forwarded to the blueprint context
ReplaceDependencies_Dropped(self, name) == << >>

\* (b *bottomUpMutatorContext) ReplaceDependencies: the calls forwarded to b.bp
ReplaceDependencies(self, name) ==
    << [to |-> self, name |-> name] >>

\* b.bp.ReplaceDependencies: queued until the pass ends; from is the identical
\* variant of the named module
bpReplaceDependencies(queue, calls) ==
    queue \o [k \in 1..Len(calls) |->
                [from |-> FindVariant(calls[k].name, calls[k].to[2]), to |-> calls[k].to]]

\* mutant: Rename leaves DebugName alone
Rename_NoDebugName(mod, name) ==
    [bp |-> << [unit |-> mod.unit, name |-> name] >>, module |-> mod]

\* (b *bottomUpMutatorContext) Rename and (t *topDownMutatorContext) Rename:
\* the call forwarded to the blueprint context, and the module with DebugName set
Rename(mod, name) ==
    [bp |-> << [unit |-> mod.unit, name |-> name] >>,
     module |-> [mod EXCEPT !.DebugName = name]]

\* at the end of the pass: the reverse dependencies queued against a module,
\* sorted by the name of the module they come from, appended to its list
bpApplyReverseDeps(st, queue) ==
    [i \in 1..Len(st) |->
        LET mine == SelectSeq(queue, LAMBDA e : e.dest = Id(st[i]))
            sorted == SortSeq(mine, LAMBDA x, y :
                                NameLess(moduleName[x.module[1]], moduleName[y.module[1]]))
        IN  [st[i] EXCEPT !.directDeps =
                @ \o [k \in 1..Len(sorted) |->
                        [module |-> sorted[k].module, tag |-> sorted[k].tag]]]]

\* at the end of the pass, after the additions: every dependency on from
\* becomes a dependency on to
RECURSIVE bpApplyReplacements(_, _)
bpApplyReplacements(st, queue) ==
    IF queue = << >> THEN st
    ELSE LET r == Head(queue)
             st1 == [i \in 1..Len(st) |->
                        [st[i] EXCEPT !.directDeps =
                            [k \in 1..Len(@) |->
                                IF @[k].module = r.from
                                THEN [@[k] EXCEPT !.module = r.to] ELSE @[k]]]]
         IN  bpApplyReplacements(st1, Tail(queue))

\* at the end of the pass: the new names become the visible names
RECURSIVE bpApplyRenames(_, _)
bpApplyRenames(names, queue) ==
    IF queue = << >> THEN names
    ELSE bpApplyRenames([names EXCEPT ![Head(queue).unit] = Head(queue).name], Tail(queue))

\* at the end of the pass: the modules CreateModule made enter the graph
bpAddNewModules(names, created) ==
    [u \in DOMAIN names \cup {created[k].unit : k \in 1..Len(created)} |->
        IF u \in DOMAIN names THEN names[u] ELSE u]

\* proptools.AppendMatchingProperties, by its outcome: nil, an
\* *ExtendPropertyError naming a property, or another error
MergeOutcomes == {"nil", "ExtendPropertyError", "error"}

\* mutant: CreateModule reports the merge error the way AppendProperties does
CreateModule_PropertyErrorf(self, new, variableProperties, err) ==
    LET module == NewModule(new)
    IN  IF variableProperties /\ err = "ExtendPropertyError"
        THEN [panic |-> FALSE, created |-> <<module>>,
              errs |-> {[module |-> self, property |-> "variable"]}]
        ELSE [panic |-> variableProperties /\ err # "nil", created |-> <<module>>, errs |-> {}]

\* (t *topDownMutatorContext) CreateModule: t.bp.CreateModule makes the module,
\* then the requester's variableProperties are merged into it when both have them
CreateModule(self, new, variableProperties, err) ==
    LET module == NewModule(new)
    IN  IF variableProperties /\ err # "nil"
        THEN [panic |-> TRUE, created |-> <<module>>, errs |-> {}]
        ELSE [panic |-> FALSE, created |-> <<module>>, errs |-> {}]

\* (t *topDownMutatorContext) AppendProperties, for one property struct
AppendProperties(self, err) ==
    CASE err = "nil" -> [panic |-> FALSE, errs |-> {}]
      [] err = "ExtendPropertyError" ->
           [panic |-> FALSE, errs |-> {[module |-> self, property |-> "variable"]}]
      [] OTHER -> [panic |-> TRUE, errs |-> {}]

----------------------------------------------------------------------------
(* Actions: registration *)

UserFuncsUsed == Len(preArch) + Len(preDeps) + Len(postDeps) + Len(finalDeps) - 12

Fresh(f) == f \notin Range(preArch) \cup Range(preDeps) \cup Range(postDeps) \cup Range(finalDeps)

CanRegister(f) == stage = "init" /\ Fresh(f) /\ UserFuncsUsed < MaxUserFuncs

PreArchMutators(f) ==
    /\ CanRegister(f)
    /\ preArch' = Append(preArch, f)
    /\ UNCHANGED <<preDeps, postDeps, finalDeps, mutators, stage, pass, store, moduleName,
                   todo, active, opDone, fatal, errs, reverseDeps, replace, rename,
                   newModules, runLog, lastOp>>

PreDepsMutators(f) ==
    /\ CanRegister(f)
    /\ preDeps' = Append(preDeps, f)
    /\ UNCHANGED <<preArch, postDeps, finalDeps, mutators, stage, pass, store, moduleName,
                   todo, active, opDone, fatal, errs, reverseDeps, replace, rename,
                   newModules, runLog, lastOp>>

PostDepsMutators(f) ==
    /\ CanRegister(f)
    /\ postDeps' = Append(postDeps, f)
    /\ UNCHANGED <<preArch, preDeps, finalDeps, mutators, stage, pass, store, moduleName,
                   todo, active, opDone, fatal, errs, reverseDeps, replace, rename,
                   newModules, runLog, lastOp>>

FinalDepsMutators(f) ==
    /\ CanRegister(f)
    /\ finalDeps' = Append(finalDeps, f)
    /\ UNCHANGED <<preArch, preDeps, postDeps, mutators, stage, pass, store, moduleName,
                   todo, active, opDone, fatal, errs, reverseDeps, replace, rename,
                   newModules, runLog, lastOp>>

RegisterMutators ==
    /\ stage = "init"
    /\ mutators' = registerMutators(preArch, preDeps, postDeps, finalDeps)
    /\ stage' = "idle"
    /\ UNCHANGED <<regVars, pass, store, moduleName, todo, active, opDone, fatal, errs,
                   queueVars, runLog, lastOp>>

----------------------------------------------------------------------------
(* Actions: the passes *)

BeginPass ==
    /\ stage = "idle"
    /\ pass < Len(mutators)
    /\ pass' = pass + 1
    /\ stage' = "pass"
    /\ todo' = [i \in 1..Len(store) |-> Id(store[i])]
    /\ runLog' = Append(runLog, mutators[pass + 1].name)
    /\ UNCHANGED <<regVars, mutators, store, moduleName, active, opDone, fatal, errs,
                   queueVars, lastOp>>

\* a visit starts: any waiting variant when the mutator is parallel, the next
\* one when no visit is in progress otherwise
BeginVisit(v) ==
    /\ stage = "pass"
    /\ ~fatal
    /\ todo # << >>
    /\ v \in Range(todo)
    /\ \/ mutators[pass].parallel
       \/ v = Head(todo) /\ active = {}
    /\ todo' = Remove(todo, v)
    /\ active' = active \cup {v}
    /\ UNCHANGED <<regVars, mutators, stage, pass, store, moduleName, opDone, fatal, errs,
                   queueVars, runLog, lastOp>>

EndVisit(v) ==
    /\ stage = "pass"
    /\ v \in active
    /\ active' = active \ {v}
    /\ opDone' = opDone \ {v}
    /\ lastOp' = NoOp
    /\ UNCHANGED <<regVars, mutators, stage, pass, store, moduleName, todo, fatal, errs,
                   queueVars, runLog>>

\* a visit calls CreateVariations or CreateLocalVariations
VisitSplit(v, variations) ==
    /\ stage = "pass"
    /\ v \in active \ opDone
    /\ mutators[pass].dir = "bottomUp"
    /\ mutators[pass].fn.m \in SplitBodies
    /\ LET mu == mutators[pass]
           r == MutatorSplit(mu, Module(v), variations)
           op == [pass |-> pass,
                  kind |-> IF mu.fn.m = "splitLocal" THEN "CreateLocalVariations"
                           ELSE "CreateVariations",
                  self |-> v, names |-> variations, arg |-> "", panic |-> r.panic,
                  ret |-> r.aModules]
       IN  IF r.panic
           THEN /\ fatal' = TRUE
                /\ active' = active \ {v}
                /\ lastOp' = op
                /\ UNCHANGED <<store, opDone>>
           ELSE /\ Len(store) - 1 + Len(variations) <= MaxVariants
                /\ Len(v[2]) < MaxDepth
                /\ store' = SplitStore(Index(v), r)
                /\ opDone' = opDone \cup {v}
                /\ lastOp' = op
                /\ UNCHANGED <<fatal, active>>
    /\ UNCHANGED <<regVars, mutators, stage, pass, moduleName, todo, errs, queueVars, runLog>>

\* depsMutator: an enabled module adds the dependencies it declares
VisitDepsMutator(v) ==
    /\ stage = "pass"
    /\ v \in active \ opDone
    /\ mutators[pass].fn.m = "depsMutator"
    /\ DeclaredDeps(v[1]) # << >>
    /\ \A k \in 1..Len(DeclaredDeps(v[1])) : HasVariant(DeclaredDeps(v[1])[k], v[2])
    /\ store' = [store EXCEPT ![Index(v)] =
                    bpAddDependency(@, AddDependency(v, "decl", DeclaredDeps(v[1])))]
    /\ opDone' = opDone \cup {v}
    /\ lastOp' = [NoOp EXCEPT !.pass = pass, !.kind = "AddDependency", !.self = v,
                              !.names = DeclaredDeps(v[1])]
    /\ UNCHANGED <<regVars, mutators, stage, pass, moduleName, todo, active, fatal, errs,
                   queueVars, runLog>>

\* a visit calls AddDependency
VisitAddDependency(v, name) ==
    /\ stage = "pass"
    /\ v \in active \ opDone
    /\ mutators[pass].dir = "bottomUp"
    /\ mutators[pass].fn.m = "replace"
    /\ HasVariant(name, v[2])
    /\ store' = [store EXCEPT ![Index(v)] = bpAddDependency(@, AddDependency(v, "dep", <<name>>))]
    /\ opDone' = opDone \cup {v}
    /\ lastOp' = [NoOp EXCEPT !.pass = pass, !.kind = "AddDependency", !.self = v,
                              !.arg = name]
    /\ UNCHANGED <<regVars, mutators, stage, pass, moduleName, todo, active, fatal, errs,
                   queueVars, runLog>>

\* a visit calls AddReverseDependency(its module, tag, name)
VisitAddReverseDependency(v, name) ==
    /\ stage = "pass"
    /\ v \in active \ opDone
    /\ mutators[pass].dir = "bottomUp"
    /\ mutators[pass].fn.m = "revdeps"
    /\ HasVariant(name, v[2])
    /\ reverseDeps' = bpAddReverseDependency(reverseDeps, AddReverseDependency(v, "rev", name))
    /\ opDone' = opDone \cup {v}
    /\ lastOp' = [NoOp EXCEPT !.pass = pass, !.kind = "AddReverseDependency", !.self = v,
                              !.arg = name]
    /\ UNCHANGED <<regVars, mutators, stage, pass, store, moduleName, todo, active, fatal,
                   errs, replace, rename, newModules, runLog>>

\* a visit calls ReplaceDependencies(name)
VisitReplaceDependencies(v, name) ==
    /\ stage = "pass"
    /\ v \in active \ opDone
    /\ mutators[pass].dir = "bottomUp"
    /\ mutators[pass].fn.m = "replace"
    /\ HasVariant(name, v[2])
    /\ replace' = bpReplaceDependencies(replace, ReplaceDependencies(v, name))
    /\ opDone' = opDone \cup {v}
    /\ lastOp' = [NoOp EXCEPT !.pass = pass, !.kind = "ReplaceDependencies", !.self = v,
                              !.arg = name]
    /\ UNCHANGED <<regVars, mutators, stage, pass, store, moduleName, todo, active, fatal,
                   errs, reverseDeps, rename, newModules, runLog>>

\* a visit calls Rename(name), name being a name no module has or is about to get
VisitRename(v, name) ==
    /\ stage = "pass"
    /\ v \in active \ opDone
    /\ mutators[pass].fn.m = "rename"
    /\ \A u \in DOMAIN moduleName : moduleName[u] # name
    /\ \A k \in 1..Len(rename) : rename[k].name # name /\ rename[k].unit # v[1]
    /\ LET r == Rename(Module(v), name)
       IN  /\ rename' = rename \o r.bp
           /\ store' = [store EXCEPT ![Index(v)] = r.module]
    /\ opDone' = opDone \cup {v}
    /\ lastOp' = [NoOp EXCEPT !.pass = pass, !.kind = "Rename", !.self = v, !.arg = name]
    /\ UNCHANGED <<regVars, mutators, stage, pass, moduleName, todo, active, fatal, errs,
                   reverseDeps, replace, newModules, runLog>>

\* a visit of a top-down mutator calls CreateModule; err is what merging the
\* variableProperties returns
VisitCreateModule(v, new, variableProperties, err) ==
    /\ stage = "pass"
    /\ v \in active \ opDone
    /\ mutators[pass].dir = "topDown"
    /\ mutators[pass].fn.m = "create"
    /\ new \notin DOMAIN moduleName
    /\ \A k \in 1..Len(newModules) : newModules[k].unit # new
    /\ LET r == CreateModule(v, new, variableProperties, err)
       IN  /\ newModules' = newModules \o r.created
           /\ errs' = errs \cup r.errs
           /\ lastOp' = [NoOp EXCEPT !.pass = pass, !.kind = "CreateModule", !.self = v,
                                     !.arg = IF variableProperties THEN err ELSE "nil",
                                     !.panic = r.panic]
           /\ IF r.panic
              THEN fatal' = TRUE /\ active' = active \ {v} /\ UNCHANGED opDone
              ELSE opDone' = opDone \cup {v} /\ UNCHANGED <<fatal, active>>
    /\ UNCHANGED <<regVars, mutators, stage, pass, store, moduleName, todo, reverseDeps,
                   replace, rename, runLog>>

\* a visit of a top-down mutator calls AppendProperties with one property struct
VisitAppendProperties(v, err) ==
    /\ stage = "pass"
    /\ v \in active \ opDone
    /\ mutators[pass].dir = "topDown"
    /\ mutators[pass].fn.m = "props"
    /\ LET r == AppendProperties(v, err)
       IN  /\ errs' = errs \cup r.errs
           /\ lastOp' = [NoOp EXCEPT !.pass = pass, !.kind = "AppendProperties", !.self = v,
                                     !.arg = err, !.panic = r.panic]
           /\ IF r.panic
              THEN fatal' = TRUE /\ active' = active \ {v} /\ UNCHANGED opDone
              ELSE opDone' = opDone \cup {v} /\ UNCHANGED <<fatal, active>>
    /\ UNCHANGED <<regVars, mutators, stage, pass, store, moduleName, todo, queueVars, runLog>>

\* the end of the pass: every visit has finished, or one panicked and the
\* ones in progress have finished.  What the visits queued is applied: the
\* reverse dependencies, then the replacements, the new modules, the renames.
EndPass ==
    /\ stage = "pass"
    /\ active = {}
    /\ \/ /\ fatal
          /\ stage' = "aborted"
          /\ UNCHANGED <<store, moduleName>>
       \/ /\ ~fatal
          /\ todo = << >>
          /\ stage' = IF errs # {} THEN "failed"
                      ELSE IF pass = Len(mutators) THEN "done" ELSE "idle"
          /\ store' = bpApplyReplacements(bpApplyReverseDeps(store, reverseDeps), replace)
                          \o newModules
          /\ moduleName' = bpApplyRenames(bpAddNewModules(moduleName, newModules), rename)
    /\ todo' = << >>
    /\ reverseDeps' = << >>
    /\ replace' = << >>
    /\ rename' = << >>
    /\ newModules' = << >>
    /\ lastOp' = NoOp
    /\ UNCHANGED <<regVars, mutators, pass, active, opDone, fatal, errs, runLog>>

----------------------------------------------------------------------------
(* Specifications *)

InitLists ==
    /\ preArch = << "RegisterNamespaceMutator", "RegisterVisibilityRuleChecker",
                    "RegisterDefaultsPreArchMutators", "RegisterComponentsMutator",
                    "RegisterPrebuiltsPreArchMutators", "RegisterVisibilityRuleGatherer" >>
    /\ preDeps = << "registerArchMutator" >>
    /\ postDeps = << "registerPathDepsMutator", "RegisterPrebuiltsPostDepsMutators",
                     "RegisterVisibilityRuleEnforcer", "RegisterNeverallowMutator",
                     "RegisterOverridePostDepsMutators" >>
    /\ finalDeps = << >>

InitRun ==
    /\ mutators = << >>
    /\ stage = "init"
    /\ pass = 0
    /\ todo = << >>
    /\ active = {}
    /\ opDone = {}
    /\ fatal = FALSE
    /\ errs = {}
    /\ reverseDeps = << >>
    /\ replace = << >>
    /\ rename = << >>
    /\ newModules = << >>
    /\ runLog = << >>
    /\ lastOp = NoOp

\* the modules the configuration files declare, in their order
InitGraph(units) ==
    /\ store = [i \in 1..Len(units) |-> NewModule(units[i])]
    /\ moduleName = [u \in Range(units) |-> u]

Scheduler ==
    \/ RegisterMutators
    \/ BeginPass
    \/ \E v \in Range(todo) : BeginVisit(v)
    \/ \E v \in active : EndVisit(v)
    \/ EndPass

InitSplit == InitLists /\ InitRun /\ InitGraph(<<"lib">>)

NextSplit ==
    \/ PreArchMutators("uSplit")
    \/ PreDepsMutators("uSplit")
    \/ PostDepsMutators("uSplit")
    \/ FinalDepsMutators("uSplit")
    \/ Scheduler
    \/ \E v \in active, names \in SplitNames : VisitSplit(v, names)

SpecSplit == InitSplit /\ [][NextSplit]_vars

OrderFuncs == {"uTwo", "uTop", "uSplit"}

InitOrder == InitLists /\ InitRun /\ InitGraph(<<"liba", "libb">>)

NextOrder ==
    \/ \E f \in OrderFuncs : PreArchMutators(f)
    \/ \E f \in OrderFuncs : PreDepsMutators(f)
    \/ \E f \in OrderFuncs : PostDepsMutators(f)
    \/ \E f \in OrderFuncs : FinalDepsMutators(f)
    \/ Scheduler

SpecOrder == InitOrder /\ [][NextOrder]_vars

InitRev == InitLists /\ InitRun /\ InitGraph(<<"libb", "liba", "libc", "target">>)

NextRev ==
    \/ PreArchMutators("uRev")
    \/ PreDepsMutators("uRev")
    \/ PostDepsMutators("uRev")
    \/ FinalDepsMutators("uRev")
    \/ Scheduler
    \/ \E v \in active : v[1] # "target" /\ VisitAddReverseDependency(v, "target")

SpecRev == InitRev /\ [][NextRev]_vars

RenameFuncs == {"uRename", "uRenameTop"}

InitRename == InitLists /\ InitRun /\ InitGraph(<<"app", "lib">>)

NextRename ==
    \/ \E f \in RenameFuncs : PreArchMutators(f)
    \/ \E f \in RenameFuncs : PreDepsMutators(f)
    \/ \E f \in RenameFuncs : PostDepsMutators(f)
    \/ \E f \in RenameFuncs : FinalDepsMutators(f)
    \/ Scheduler
    \/ \E v \in active, n \in {"n1", "n2"} : VisitRename(v, n)

SpecRename == InitRename /\ [][NextRename]_vars

InitReplace == InitLists /\ InitRun /\ InitGraph(<<"app", "old", "new">>)

NextReplace ==
    \/ PreArchMutators("uReplace")
    \/ PreDepsMutators("uReplace")
    \/ PostDepsMutators("uReplace")
    \/ FinalDepsMutators("uReplace")
    \/ Scheduler
    \/ \E v \in active : VisitDepsMutator(v)
    \/ \E v \in active : v[1] = "app" /\ VisitAddDependency(v, "old")
    \/ \E v \in active : v[1] = "new" /\ VisitReplaceDependencies(v, "old")

SpecReplace == InitReplace /\ [][NextReplace]_vars

CreateFuncs == {"uCreate", "uProps"}

InitCreate == InitLists /\ InitRun /\ InitGraph(<<"app", "lib">>)

NextCreate ==
    \/ \E f \in CreateFuncs : PreArchMutators(f)
    \/ \E f \in CreateFuncs : PreDepsMutators(f)
    \/ \E f \in CreateFuncs : PostDepsMutators(f)
    \/ \E f \in CreateFuncs : FinalDepsMutators(f)
    \/ Scheduler
    \/ \E v \in active, vp \in BOOLEAN, err \in MergeOutcomes :
          VisitCreateModule(v, "gen", vp, err)
    \/ \E v \in active, err \in MergeOutcomes : VisitAppendProperties(v, err)

SpecCreate == InitCreate /\ [][NextCreate]_vars

----------------------------------------------------------------------------
(* Properties *)

IsPrefix(s, t) == Len(s) <= Len(t) /\ s = SubSeq(t, 1, Len(s))

\* the names of the mutators the functions of a list register, in order
Names(funcs) ==
    Flatten([i \in 1..Len(funcs) |->
                [k \in 1..Len(Calls(funcs[i])) |-> Calls(funcs[i])[k].name]])

ArchNames == <<"os", "image", "arch">>

PhaseOrder ==
    Names(preArch) \o ArchNames \o Names(Tail(preDeps)) \o <<"deps">>
        \o Names(postDeps) \o Names(finalDeps)

\* the phase a mutator belongs to: 1 PreArch, 2 os/image/arch, 3 PreDeps,
\* 4 deps, 5 PostDeps, 6 FinalDeps
PhaseOf(name) ==
    CASE name \in Range(ArchNames) -> 2
      [] name = "deps" -> 4
      [] name \in Range(Names(preArch)) -> 1
      [] name \in Range(Names(preDeps)) -> 3
      [] name \in Range(Names(postDeps)) -> 5
      [] OTHER -> 6

\* the index in mutators of the first mutator registered with finalPhase set
FinalStart == Len(registerMutators(preArch, preDeps, postDeps, << >>)) + 1

IsSplit(op) == op.kind \in {"CreateVariations", "CreateLocalVariations"}

\* C1: the passes run in the order PreArch, os, image, arch, PreDeps, deps,
\* PostDeps, FinalDeps, and inside a phase in the order of registration; no
\* pass of a later phase runs before a pass of an earlier phase.
C1_PhaseOrder ==
    stage # "init" =>
        /\ IsPrefix(runLog, PhaseOrder)
        /\ stage = "done" => runLog = PhaseOrder
        /\ \A i, j \in 1..Len(runLog) : i < j => PhaseOf(runLog[i]) <= PhaseOf(runLog[j])

\* C1 witness: a run has finished with client mutators in two phases, one of
\* them after the built-in arch mutators in PreDeps
C1_Witness ==
    /\ stage = "done"
    /\ Len(preDeps) > 1
    /\ Len(finalDeps) + Len(preArch) > 6
    /\ Len(runLog) > 18

\* C2 (as claimed): a split called from a mutator registered in the final
\* phase always panics, whichever way the mutator was registered.
C2_FinalSplitAlwaysFails ==
    (IsSplit(lastOp) /\ lastOp.pass >= FinalStart) => lastOp.panic

\* C3 (as claimed): a split requested in the final phase changes no variant
\* and stops the run.
C3_FinalSplitAborts ==
    [][(lastOp' # lastOp /\ IsSplit(lastOp') /\ lastOp'.pass >= FinalStart)
          => (store' = store /\ fatal')]_vars

\* C4: a split outside the final phase returns one child per name, in the
\* order of the names, child i being the parent extended by (mutator,
\* names[i]); the children take the parent's place and no other variant changes.
C4_SplitStep ==
    (lastOp' # lastOp /\ IsSplit(lastOp') /\ ~lastOp'.panic /\ lastOp'.pass < FinalStart) =>
        LET v == lastOp'.self
            i == Index(v)
            p == store[i]
            names == lastOp'.names
            ret == lastOp'.ret
        IN  /\ Len(ret) = Len(names)
            /\ \A k \in 1..Len(names) :
                 /\ ret[k].unit = p.unit
                 /\ ret[k].variations = Append(p.variations, <<mutators[pass].name, names[k]>>)
                 /\ store'[i + k - 1] = ret[k]
            /\ Len(store') = Len(store) - 1 + Len(names)
            /\ \A j \in 1..Len(store) :
                 j # i => store'[IF j < i THEN j ELSE j + Len(names) - 1] = store[j]

C4_SplitResult == [][C4_SplitStep]_vars

\* C4 witness: a variant that was split before has been split in two
C4_Witness ==
    /\ IsSplit(lastOp)
    /\ ~lastOp.panic
    /\ Len(lastOp.ret) = 2
    /\ Len(lastOp.self[2]) >= 1
    /\ lastOp.pass < FinalStart

\* the mutators whose splits go through an android context
Recorded(axis) ==
    \E k \in 1..Len(mutators) :
        /\ mutators[k].name = axis
        /\ \/ mutators[k].fn.wrap = "android"
           \/ mutators[k].fn.m \in {"osMutator", "archMutator"}

\* C5 (as claimed): the history of every variant lists every split on its path
C5_HistoryIsEverySplit ==
    \A i \in 1..Len(store) :
        /\ Len(store[i].DebugMutators) = Len(store[i].variations)
        /\ Len(store[i].DebugVariations) = Len(store[i].variations)
        /\ \A k \in 1..Len(store[i].variations) :
             <<store[i].DebugMutators[k], store[i].DebugVariations[k]>> = store[i].variations[k]

\* C5 (amended): the two history lists have equal length and list, in order,
\* the (mutator, value) pairs of the splits on the variant's path that were
\* made through an android context; a split made on the blueprint context by
\* a mutator registered with BottomUpBlueprint leaves no entry.
C5_HistoryIsAndroidSplits ==
    \A i \in 1..Len(store) :
        LET rec == SelectSeq(store[i].variations, LAMBDA pr : Recorded(pr[1]))
        IN  /\ Len(store[i].DebugMutators) = Len(store[i].DebugVariations)
            /\ Len(store[i].DebugMutators) = Len(rec)
            /\ \A k \in 1..Len(rec) :
                 <<store[i].DebugMutators[k], store[i].DebugVariations[k]>> = rec[k]

\* C5 witness: a variant split by a CreateLocalVariations mutator and by a
\* built-in mutator carries both in its history
C5_Witness ==
    \E i \in 1..Len(store) :
        /\ Len(store[i].DebugMutators) = 2
        /\ "local" \in Range(store[i].DebugMutators)
        /\ Range(store[i].DebugMutators) \cap Range(ArchNames) # {}

\* a mutator was marked parallel where it was registered
MarkedParallel(name) ==
    \/ name = "deps"
    \/ \E f \in Range(preArch \o preDeps \o postDeps \o finalDeps) :
         \E k \in 1..Len(Calls(f)) : Calls(f)[k].name = name /\ Calls(f)[k].parallel

\* C9: visits overlap only in the pass of a mutator marked Parallel(); and
\* a pass starts only when no visit of the pass before is waiting or running.
C9_SerialByDefault ==
    /\ [](Cardinality(active) > 1 => (stage = "pass" /\ MarkedParallel(mutators[pass].name)))
    /\ [](stage # "pass" => (active = {} /\ todo = << >>))
    /\ [][pass' # pass => (active = {} /\ todo = << >> /\ pass' = pass + 1)]_vars

\* C9 witness: in the pass of a mutator not marked parallel one visit is in
\* progress while another variant waits
C9_Witness ==
    /\ stage = "pass"
    /\ mutators[pass].name = "two-a"
    /\ Cardinality(active) = 1
    /\ todo # << >>

\* the step with which a pass ends without a panic
EndPassStep == stage = "pass" /\ stage' \notin {"pass", "aborted"}

\* the step in which a visit makes the call kind
CallStep(kind) == lastOp' # lastOp /\ lastOp'.kind = kind

\* the dependencies a module gained in the step
Gained(i) ==
    SubSeq(store'[i].directDeps, Len(store[i].directDeps) + 1, Len(store'[i].directDeps))

\* C6: AddReverseDependency changes no dependency list during the pass; when
\* the pass ends each module's list is extended by exactly the entries queued
\* against it, in the order of the names of the modules they come from, which
\* does not depend on the order of the visits.
C6_ReverseDepsSorted ==
    /\ [][CallStep("AddReverseDependency") =>
            /\ store' = store
            /\ reverseDeps' = Append(reverseDeps,
                                [dest |-> FindVariant(lastOp'.arg, lastOp'.self[2]),
                                 tag |-> "rev", module |-> lastOp'.self])]_vars
    /\ [][EndPassStep =>
            \A i \in 1..Len(store) :
                LET queued == {e \in Range(reverseDeps) : e.dest = Id(store[i])}
                    added == Gained(i)
                IN  /\ IsPrefix(store[i].directDeps, store'[i].directDeps)
                    /\ {[dest |-> Id(store[i]), tag |-> added[k].tag, module |-> added[k].module] :
                            k \in 1..Len(added)} = queued
                    /\ \A k, l \in 1..Len(added) :
                         k < l => NameLess(moduleName[added[k].module[1]],
                                           moduleName[added[l].module[1]])]_vars

\* C6 witness: the reverse dependencies were queued by libb, liba, libc in
\* that order
C6_Witness ==
    /\ stage = "pass"
    /\ [k \in 1..Len(reverseDeps) |-> reverseDeps[k].module[1]] = <<"libb", "liba", "libc">>

\* C7 (as claimed): between Rename and the end of the pass no name that can
\* be observed on a module changes
C7_AllNamesOldUntilPassEnd ==
    [][(stage = "pass" /\ stage' = "pass") =>
          /\ moduleName' = moduleName
          /\ \A i \in 1..Len(store) : store'[i].DebugName = store[i].DebugName]_vars

\* C7 (amended): the name ModuleName returns does not change during a pass and
\* is the new name once the pass has ended; DebugName of the renamed module is
\* the new name from the Rename call on.
C7_RenameVisibleNextPass ==
    /\ [][(stage = "pass" /\ stage' = "pass") => moduleName' = moduleName]_vars
    /\ [][CallStep("Rename") =>
            /\ store'[Index(lastOp'.self)].DebugName = lastOp'.arg
            /\ rename' = Append(rename, [unit |-> lastOp'.self[1], name |-> lastOp'.arg])]_vars
    /\ [][EndPassStep =>
            \A u \in DOMAIN moduleName :
                IF \E k \in 1..Len(rename) : rename[k].unit = u
                THEN \A k \in 1..Len(rename) :
                        rename[k].unit = u => moduleName'[u] = rename[k].name
                ELSE moduleName'[u] = moduleName[u]]_vars

\* C7 witness: a module has called Rename and the visit of another module of
\* the same pass is in progress
C7_Witness ==
    /\ stage = "pass"
    /\ rename # << >>
    /\ \E w \in active : w[1] # rename[1].unit
    /\ moduleName[rename[1].unit] # rename[1].name
    /\ \E i \in 1..Len(store) :
         store[i].unit = rename[1].unit /\ store[i].DebugName = rename[1].name

\* C8: ReplaceDependencies changes no dependency during the pass; when the
\* pass ends every dependency on the identical variant of the named module,
\* those added in the same pass included, is a dependency on the replacing
\* variant.
C8_ReplaceAtPassEnd ==
    /\ [][CallStep("ReplaceDependencies") =>
            /\ store' = store
            /\ replace' = Append(replace,
                            [from |-> FindVariant(lastOp'.arg, lastOp'.self[2]),
                             to |-> lastOp'.self])]_vars
    /\ [][(stage = "pass" /\ stage' = "pass") =>
            \A i \in 1..Len(store) : IsPrefix(store[i].directDeps, store'[i].directDeps)]_vars
    /\ [][EndPassStep =>
            \A r \in Range(replace) : \A i \in 1..Len(store) :
                /\ Len(store'[i].directDeps) = Len(store[i].directDeps)
                /\ \A k \in 1..Len(store[i].directDeps) :
                     store'[i].directDeps[k].module =
                        IF store[i].directDeps[k].module = r.from THEN r.to
                        ELSE store[i].directDeps[k].module]_vars

\* C8 witness: after new asked to replace old, app has added a dependency on
\* old in the same pass, next to the one it had before
C8_Witness ==
    /\ stage = "pass"
    /\ replace # << >>
    /\ lastOp.kind = "AddDependency"
    /\ lastOp.arg = "old"
    /\ Len(Module(lastOp.self).directDeps) = 2

\* C10 (as claimed): a merge error in CreateModule is recorded as an error of
\* the unit and does not stop the pass
C10_MergeErrorIsUnitLocal ==
    [][(CallStep("CreateModule") /\ lastOp'.arg # "nil") =>
          (~fatal' /\ errs' # errs /\ lastOp'.self \in active')]_vars

\* C10 (amended): a merge error in CreateModule is a panic: the visit ends,
\* no unit error is recorded and no further visit starts; it is
\* AppendProperties that records an ExtendPropertyError against the unit,
\* with its property, and goes on.
C10_CreateModulePanics ==
    /\ [][(CallStep("CreateModule") /\ lastOp'.arg # "nil") =>
            (fatal' /\ errs' = errs /\ lastOp'.self \notin active')]_vars
    /\ [][(CallStep("AppendProperties") /\ lastOp'.arg = "ExtendPropertyError") =>
            /\ fatal' = fatal
            /\ lastOp'.self \in active'
            /\ errs' = errs \cup {[module |-> lastOp'.self, property |-> "variable"]}]_vars
    /\ [][fatal => (active' \subseteq active /\ pass' = pass /\ stage' \in {"pass", "aborted"})]_vars

\* C10 witness: CreateModule panicked on a merge error while another unit of
\* the pass had not been visited
C10_Witness ==
    /\ lastOp.kind = "CreateModule"
    /\ lastOp.panic
    /\ lastOp.arg = "ExtendPropertyError"
    /\ todo # << >>

\* the flags the mutators carry are the ones of their registration: false for
\* a mutator registered before mctx.finalPhase was set (PreArch, os/image/arch,
\* PreDeps, deps, PostDeps), true for one registered with BottomUp after it
FlagsAsRegistered(ms, finalStart) ==
    \A k \in 1..Len(ms) :
        /\ k < finalStart => ~ms[k].fn.finalPhase
        /\ ms[k].name = "deps" => ~ms[k].fn.finalPhase
        /\ (k >= finalStart /\ ms[k].dir = "bottomUp" /\ ms[k].fn.wrap = "android")
              => ms[k].fn.finalPhase

\* C11: the finalPhase a mutator was registered with is the one its visits
\* see for the whole run: registerMutators leaves every mutator with the flag
\* of its registration, the list of mutators never changes afterwards, also
\* while the FinalDeps passes run, and no CreateVariations or
\* CreateLocalVariations called from a mutator registered before the final
\* phase panics.
C11_FlagFixedAtRegistration ==
    [][/\ mutators' # mutators =>
            (stage = "init" /\ FlagsAsRegistered(mutators', FinalStart))
       /\ (lastOp' # lastOp /\ IsSplit(lastOp')) =>
            LET op == lastOp'
            IN  /\ mutators[op.pass].fn.wrap = "android"
                     => op.panic = mutators[op.pass].fn.finalPhase
                /\ op.pass < FinalStart => (~op.panic /\ ~fatal')]_vars

\* C11 witness: a FinalDeps pass of a mutator that carries the flag is running
\* on a variant that the image mutator, registered with BottomUp in PreDeps,
\* has split
C11_Witness ==
    /\ stage = "pass"
    /\ pass >= FinalStart
    /\ mutators[pass].fn.finalPhase
    /\ active # {}
    /\ \E i \in 1..Len(store) :
         /\ "image" \in Range(store[i].DebugMutators)
         /\ \E k \in 1..Len(store[i].variations) : store[i].variations[k][1] = "image"
    /\ \A k \in 1..(FinalStart - 1) : ~mutators[k].fn.finalPhase

====
